---- MODULE Spec2Model ----
(***************************************************************************)
(* bf-llvm: a single-pass compiler from a tape language (eight symbols    *)
(* plus one-character procedures) to LLVM IR.  The model follows          *)
(* src/main.rs: Lexer (buffer, ptr), CodeGen (builder position, ptr       *)
(* scope stack, loops stack, procs registry, module) and the run of the   *)
(* generated module.                                                      *)
(***************************************************************************)
EXTENDS Integers, Sequences, FiniteSets, TLC

VARIABLES
    buffer,     \* Lexer.buffer: the source characters
    lptr,       \* Lexer.ptr: the read position, 0-based
    vec,        \* Lexer::run's local vec of Ops
    pc,         \* position of the process in main()
    ast,        \* CodeGen.ast
    ip,         \* CodeGen::run: 1-based index of the next Op of the loop
    funcs,      \* CodeGen.module: the defined functions, in creation order
    blocks,     \* CodeGen.module: the basic blocks, in creation order
    cur,        \* CodeGen.builder: the block the builder is positioned at
    ptr,        \* CodeGen.ptr: stack of pointer-scope cells
    loops,      \* CodeGen.loops: stack of (cond_block, end_block)
    procs,      \* CodeGen.procs: ident -> None (0) | Some(f) (f > 0)
    llvmAsserts, \* whether the linked LLVM library checks operand types
    opened,     \* history: ident -> the block the builder was at when proc(ident)
                \* found the identifier unregistered
    frames,     \* the generated program: its call stack
    tape,       \* the generated program: the cells written so far (others are 0)
    output,     \* the generated program: the bytes given to putchar
    nread       \* the generated program: the number of getchar calls

lexVars == <<buffer, lptr, vec>>
genVars == <<ast, ip, funcs, blocks, cur, ptr, loops, procs>>
runVars == <<frames, tape, output, nread>>
vars == <<buffer, lptr, vec, pc, ast, ip, funcs, blocks, cur, ptr, loops, procs,
          llvmAsserts, opened, frames, tape, output, nread>>

(***************************************************************************)
(* Bounds of the model                                                    *)
(***************************************************************************)
\* longest source text of the exhaustive input set of the lexer
LexLen == 3
\* longest run of one repeated symbol in the run-length inputs
MaxRun == 5
\* longest source text of the exhaustive input set of the generator
GenLen == 3
\* longest source text over brackets, identifiers and a pointer move
StructLen == 6
\* longest source text of the exhaustive input set of the whole pipeline
ProgLen == 3
\* longest source text over identifiers and pointer moves
ScopeLen == 6
\* longest procedure body of the define-and-call programs
BodyLen == 3
\* most calls of the procedure, and most loop rounds, of the small programs
MaxCalls == 5
\* the run of the generated program stops at this many bytes written
MaxOut == 2
\* the run of the generated program stops at this many bytes read
MaxIn == 2

(***************************************************************************)
(* Characters                                                             *)
(***************************************************************************)
RunChars == {">", "<", "+", "-"}
Whitespace == {"\n", "\r", " ", "\t"}
Symbols == RunChars \cup {".", ",", "[", "]"}
\* a sample of the characters for which char::is_alphanumeric holds
AlphaNumChars == {"a", "7"}
\* a sample of the characters that are neither symbols, whitespace nor alphanumeric
IdentChars == {"!", "#"}
Alphabet == Symbols \cup Whitespace \cup AlphaNumChars \cup IdentChars

\* mutant: letters only, as char::is_alphabetic
is_alphabetic_only(ch) == ch \in {"a"}

is_alphanumeric(ch) == ch \in AlphaNumChars

(***************************************************************************)
(* Op                                                                     *)
(***************************************************************************)
MkOp(k, n, c) == [k |-> k, n |-> n, c |-> c]
PointerInc(n) == MkOp("PointerInc", n, "")
PointerDec(n) == MkOp("PointerDec", n, "")
ValueInc(n) == MkOp("ValueInc", n, "")
ValueDec(n) == MkOp("ValueDec", n, "")
Output == MkOp("Output", 0, "")
Input == MkOp("Input", 0, "")
LLoop == MkOp("LLoop", 0, "")
RLoop == MkOp("RLoop", 0, "")
Proc(c) == MkOp("Proc", 0, c)
RunKinds == {"PointerInc", "PointerDec", "ValueInc", "ValueDec"}

(***************************************************************************)
(* Lexer                                                                  *)
(***************************************************************************)
\* Lexer::peek: the character at the 0-based position p, or none
HasChar(buf, p) == p < Len(buf)
peek(buf, p) == buf[p + 1]

\* mutant: the loop goes on over any run symbol, not only over c
SameCountAnyRun(buf, p, c) ==
    CHOOSE k \in 0..(Len(buf) - p) :
        /\ \A i \in 1..k : buf[p + i] \in {">", "<", "+", "-"}
        /\ p + k < Len(buf) => buf[p + k + 1] \notin {">", "<", "+", "-"}

\* the loop of Lexer::eat_while_same: it eats while the peeked character is c,
\* so count is the length of the longest stretch of c from position p on
SameCount(buf, p, c) ==
    CHOOSE k \in 0..(Len(buf) - p) :
        /\ \A i \in 1..k : buf[p + i] = c
        /\ HasChar(buf, p + k) => peek(buf, p + k) # c

\* the match at the end of Lexer::eat_while_same
RunOp(c, count) ==
    CASE c = ">" -> PointerInc(count)
      [] c = "<" -> PointerDec(count)
      [] c = "+" -> ValueInc(count)
      [] c = "-" -> ValueDec(count)

\* mutant: the first character is eaten before the loop and not counted
eat_while_same_uncounted(buf, p, c) ==
    LET count == SameCount(buf, p + 1, c)
    IN  [op |-> RunOp(c, count), eaten |-> count + 1]

\* mutant: eat() is called once more after the loop
eat_while_same_overrun(buf, p, c) ==
    LET count == SameCount(buf, p, c)
    IN  [op |-> RunOp(c, count), eaten |-> count + 1]

\* Lexer::eat_while_same: the Op and the number of characters eaten
eat_while_same(buf, p, c) ==
    LET count == SameCount(buf, p, c)
    IN  [op |-> RunOp(c, count), eaten |-> count]

\* mutant: the arms of '[' and ']' are swapped
SingleOp_swapped(c) ==
    CASE c = "." -> Output
      [] c = "," -> Input
      [] c = "[" -> RLoop
      [] c = "]" -> LLoop

\* the one-character arms of Lexer::get_op
SingleOp(c) ==
    CASE c = "." -> Output
      [] c = "," -> Input
      [] c = "[" -> LLoop
      [] c = "]" -> RLoop

Lexing == pc = "lex"

\* get_op, arm '>' | '<' | '+' | '-'
LexRun ==
    /\ Lexing
    /\ HasChar(buffer, lptr)
    /\ peek(buffer, lptr) \in RunChars
    /\ LET r == eat_while_same(buffer, lptr, peek(buffer, lptr))
       IN  /\ lptr' = lptr + r.eaten
           /\ vec' = Append(vec, r.op)
    /\ UNCHANGED <<buffer, pc, genVars, llvmAsserts, opened, runVars>>

\* get_op, arms '.', ',', '[' and ']'
LexSingle ==
    /\ Lexing
    /\ HasChar(buffer, lptr)
    /\ peek(buffer, lptr) \in {".", ",", "[", "]"}
    /\ lptr' = lptr + 1
    /\ vec' = Append(vec, SingleOp(peek(buffer, lptr)))
    /\ UNCHANGED <<buffer, pc, genVars, llvmAsserts, opened, runVars>>

\* get_op, arm '\n' | '\r' | ' ' | '\t': eat, then get_op again
LexWhitespace ==
    /\ Lexing
    /\ HasChar(buffer, lptr)
    /\ peek(buffer, lptr) \in Whitespace
    /\ lptr' = lptr + 1
    /\ UNCHANGED <<buffer, vec, pc, genVars, llvmAsserts, opened, runVars>>

\* get_op, arm ch with !ch.is_alphanumeric()
LexProc ==
    /\ Lexing
    /\ HasChar(buffer, lptr)
    /\ peek(buffer, lptr) \notin Symbols \cup Whitespace
    /\ ~is_alphanumeric(peek(buffer, lptr))
    /\ lptr' = lptr + 1
    /\ vec' = Append(vec, Proc(peek(buffer, lptr)))
    /\ UNCHANGED <<buffer, pc, genVars, llvmAsserts, opened, runVars>>

\* get_op, arm ch, panic!("Illegal character! {}")
LexIllegal ==
    /\ Lexing
    /\ HasChar(buffer, lptr)
    /\ peek(buffer, lptr) \notin Symbols \cup Whitespace
    /\ is_alphanumeric(peek(buffer, lptr))
    /\ pc' = "lex_panic"
    /\ UNCHANGED <<lexVars, genVars, llvmAsserts, opened, runVars>>

\* get_op returns None and Lexer::run returns vec
LexEnd ==
    /\ Lexing
    /\ ~HasChar(buffer, lptr)
    /\ pc' = "lexed"
    /\ UNCHANGED <<lexVars, genVars, llvmAsserts, opened, runVars>>

LexNext ==
    \/ LexRun
    \/ LexSingle
    \/ LexWhitespace
    \/ LexProc
    \/ LexIllegal
    \/ LexEnd

(***************************************************************************)
(* The module under construction                                          *)
(***************************************************************************)
\* widths of the integer types the generator names
CellBits == 8
CountBits == 64
PutcharParamBits == 32
\* the size of the tape, calloc(1000, 1)
TapeSize == 1000

\* One instruction (or the fixed group of instructions one handler emits).
\* cell: the pointer-scope cell it loads, named by the function whose entry
\* block allocated it; n: a displacement or constant; t, e: branch targets or
\* the callee; w: the width of the operand the handler passes.
MkIns(op, cell, n, t, e, w) == [op |-> op, cell |-> cell, n |-> n, t |-> t, e |-> e, w |-> w]
\* alloca of the scope cell and the store of calloc's block or of the parameter
InsInit(cell) == MkIns("init", cell, 0, 0, 0, 0)
InsGep(cell, n) == MkIns("gep", cell, n, 0, 0, CountBits)
InsArith(op, cell, n) == MkIns(op, cell, n, 0, 0, CountBits)
InsOut(cell) == MkIns("out", cell, 0, 0, 0, CellBits)
InsIn(cell) == MkIns("in", cell, 0, 0, 0, 0)
InsBr(t) == MkIns("br", 0, 0, t, 0, 0)
InsCondBr(cell, t, e) == MkIns("condbr", cell, 0, t, e, 0)
InsCall(f, cell) == MkIns("call", cell, 0, f, 0, 0)
InsRet(hasValue) == MkIns("ret", 0, IF hasValue THEN 1 ELSE 0, 0, 0, 0)
Terminators == {"br", "condbr", "ret"}

EmptyMap == [x \in {} |-> 0]
Back(s) == s[Len(s)]
PopBack(s) == SubSeq(s, 1, Len(s) - 1)

\* builder.build_*: append at the end of block b
Emit(bs, b, ins) == [bs EXCEPT ![b].ins = Append(@, ins)]
\* ctx.append_basic_block(f, _)
NewBlock(f) == [fn |-> f, ins |-> <<>>]
\* module.get_function(name)
get_function(name) == CHOOSE f \in 1..Len(funcs) : funcs[f].name = name
\* f.get_basic_blocks().last()
LastBlockOf(f) ==
    CHOOSE b \in 1..Len(blocks) :
        /\ blocks[b].fn = f
        /\ \A c \in 1..Len(blocks) : blocks[c].fn = f => c <= b

(***************************************************************************)
(* CodeGen                                                                *)
(***************************************************************************)
\* CodeGen::new: main, its entry block, the tape-pointer cell and calloc
CodeGen_new ==
    /\ pc = "lexed"
    /\ pc' = "gen"
    /\ ast' = vec
    /\ ip' = 1
    /\ funcs' = <<[name |-> "main", void |-> FALSE]>>
    /\ blocks' = <<[fn |-> 1, ins |-> <<InsInit(1)>>]>>
    /\ cur' = 1
    /\ ptr' = <<1>>
    /\ loops' = <<>>
    /\ procs' = EmptyMap
    /\ UNCHANGED <<lexVars, llvmAsserts, opened, runVars>>

\* the loop of CodeGen::run is at an Op of kind k
AtOp(kinds) == pc = "gen" /\ ip <= Len(ast) /\ ast[ip].k \in kinds

\* CodeGen::ptr_manipulate
ptr_manipulate(count, dec) ==
    Emit(blocks, cur, InsGep(Back(ptr), IF dec THEN -count ELSE count))

\* CodeGen::val_manipulate: the loaded i8 and an i64 constant are the operands
val_manipulate(count, dec) ==
    Emit(blocks, cur, InsArith(IF dec THEN "sub" ELSE "add", Back(ptr), count))

\* Op::PointerInc, Op::PointerDec
GenPointer ==
    /\ AtOp({"PointerInc", "PointerDec"})
    /\ blocks' = ptr_manipulate(ast[ip].n, ast[ip].k = "PointerDec")
    /\ ip' = ip + 1
    /\ UNCHANGED <<lexVars, pc, ast, funcs, cur, ptr, loops, procs, llvmAsserts, opened, runVars>>

\* Op::ValueInc, Op::ValueDec.  build_int_add and build_int_sub get operands of
\* two widths, which the library does not define: a library that checks its
\* operands stops the process, one that does not takes the result's type from
\* the left operand.
GenValue ==
    /\ AtOp({"ValueInc", "ValueDec"})
    /\ IF llvmAsserts /\ CountBits # CellBits
       THEN /\ pc' = "llvm_abort"
            /\ UNCHANGED <<blocks, ip>>
       ELSE /\ blocks' = val_manipulate(ast[ip].n, ast[ip].k = "ValueDec")
            /\ ip' = ip + 1
            /\ pc' = pc
    /\ UNCHANGED <<lexVars, ast, funcs, cur, ptr, loops, procs, llvmAsserts, opened, runVars>>

\* Op::Output, CodeGen::out: putchar(i32) is called with the loaded i8
GenOutput ==
    /\ AtOp({"Output"})
    /\ IF llvmAsserts /\ PutcharParamBits # CellBits
       THEN /\ pc' = "llvm_abort"
            /\ UNCHANGED <<blocks, ip>>
       ELSE /\ blocks' = Emit(blocks, cur, InsOut(Back(ptr)))
            /\ ip' = ip + 1
            /\ pc' = pc
    /\ UNCHANGED <<lexVars, ast, funcs, cur, ptr, loops, procs, llvmAsserts, opened, runVars>>

\* Op::Input, CodeGen::input
GenInput ==
    /\ AtOp({"Input"})
    /\ blocks' = Emit(blocks, cur, InsIn(Back(ptr)))
    /\ ip' = ip + 1
    /\ UNCHANGED <<lexVars, pc, ast, funcs, cur, ptr, loops, procs, llvmAsserts, opened, runVars>>

\* mutant: the first branch goes to body_block, the test comes after the body
loop_start_body_first ==
    LET main == blocks[cur].fn
        cond_block == Len(blocks) + 1
        body_block == Len(blocks) + 2
        end_block == Len(blocks) + 3
        appended == blocks \o <<NewBlock(main), NewBlock(main), NewBlock(main)>>
        branched == Emit(appended, cur, InsBr(body_block))
    IN  /\ loops' = Append(loops, <<cond_block, end_block>>)
        /\ blocks' = Emit(branched, cond_block,
                          InsCondBr(Back(ptr), body_block, end_block))
        /\ cur' = body_block

\* CodeGen::loop_start
loop_start ==
    LET main == blocks[cur].fn
        cond_block == Len(blocks) + 1
        body_block == Len(blocks) + 2
        end_block == Len(blocks) + 3
        appended == blocks \o <<NewBlock(main), NewBlock(main), NewBlock(main)>>
        branched == Emit(appended, cur, InsBr(cond_block))
    IN  /\ loops' = Append(loops, <<cond_block, end_block>>)
        /\ blocks' = Emit(branched, cond_block,
                          InsCondBr(Back(ptr), body_block, end_block))
        /\ cur' = body_block

\* Op::LLoop
GenLLoop ==
    /\ AtOp({"LLoop"})
    /\ loop_start
    /\ ip' = ip + 1
    /\ UNCHANGED <<lexVars, pc, ast, funcs, ptr, procs, llvmAsserts, opened, runVars>>

\* mutant: back() in place of pop_back(), the frame stays on the stack
loop_end_keeps_frame ==
    LET cond_block == Back(loops)[1]
        end_block == Back(loops)[2]
    IN  /\ loops' = loops
        /\ blocks' = Emit(blocks, cur, InsBr(cond_block))
        /\ cur' = end_block

\* mutant: pop_front() in place of pop_back(), the oldest frame is taken
loop_end_pops_front ==
    LET cond_block == loops[1][1]
        end_block == loops[1][2]
    IN  /\ loops' = SubSeq(loops, 2, Len(loops))
        /\ blocks' = Emit(blocks, cur, InsBr(cond_block))
        /\ cur' = end_block

\* CodeGen::loop_end, with a frame to pop
loop_end ==
    LET cond_block == Back(loops)[1]
        end_block == Back(loops)[2]
    IN  /\ loops' = PopBack(loops)
        /\ blocks' = Emit(blocks, cur, InsBr(cond_block))
        /\ cur' = end_block

\* Op::RLoop
GenRLoop ==
    /\ AtOp({"RLoop"})
    /\ loops # <<>>
    /\ loop_end
    /\ ip' = ip + 1
    /\ UNCHANGED <<lexVars, pc, ast, funcs, ptr, procs, llvmAsserts, opened, runVars>>

\* Op::RLoop, self.loops.pop_back().unwrap() on an empty stack
GenRLoopPanic ==
    /\ AtOp({"RLoop"})
    /\ loops = <<>>
    /\ pc' = "gen_panic"
    /\ UNCHANGED <<lexVars, genVars, llvmAsserts, opened, runVars>>

\* CodeGen::proc, arm None
proc_unseen(ident) ==
    LET f == Len(funcs) + 1
        entry == Len(blocks) + 1
    IN  /\ funcs' = Append(funcs, [name |-> ident, void |-> TRUE])
        /\ blocks' = Append(blocks, [fn |-> f, ins |-> <<InsInit(f)>>])
        /\ cur' = entry
        /\ ptr' = Append(ptr, f)
        /\ procs' = (ident :> 0) @@ procs
        /\ opened' = (ident :> cur) @@ opened
        /\ UNCHANGED loops

\* mutant: closing the definition also calls the procedure once
proc_defining_and_call(ident) ==
    LET main == get_function("main")
        last_block == LastBlockOf(main)
        f == get_function(ident)
        closed == Emit(blocks, cur, InsRet(FALSE))
    IN  /\ blocks' = Emit(closed, last_block, InsCall(f, Back(PopBack(ptr))))
        /\ ptr' = PopBack(ptr)
        /\ cur' = last_block
        /\ procs' = [procs EXCEPT ![ident] = f]
        /\ UNCHANGED <<funcs, loops>>

\* mutant: the insert of Some(f) is left out, the entry stays None
proc_defining_unregistered(ident) ==
    LET main == get_function("main")
        last_block == LastBlockOf(main)
    IN  /\ blocks' = Emit(blocks, cur, InsRet(FALSE))
        /\ ptr' = PopBack(ptr)
        /\ cur' = last_block
        /\ UNCHANGED <<funcs, loops, procs>>

\* mutant: the pop_back() of the pointer-scope stack is left out
proc_defining_keeps_scope(ident) ==
    LET main == get_function("main")
        last_block == LastBlockOf(main)
        f == get_function(ident)
    IN  /\ blocks' = Emit(blocks, cur, InsRet(FALSE))
        /\ cur' = last_block
        /\ procs' = [procs EXCEPT ![ident] = f]
        /\ UNCHANGED <<funcs, ptr, loops>>

\* CodeGen::proc, arm Some(None)
proc_defining(ident) ==
    LET main == get_function("main")
        last_block == LastBlockOf(main)
        f == get_function(ident)
    IN  /\ blocks' = Emit(blocks, cur, InsRet(FALSE))
        /\ ptr' = PopBack(ptr)
        /\ cur' = last_block
        /\ procs' = [procs EXCEPT ![ident] = f]
        /\ UNCHANGED <<funcs, loops>>

\* mutant: the call is followed by the repositioning of the Defining arm
proc_ready_repositions(ident) ==
    /\ blocks' = Emit(blocks, cur, InsCall(procs[ident], Back(ptr)))
    /\ cur' = LastBlockOf(get_function("main"))
    /\ UNCHANGED <<funcs, ptr, loops, procs>>

\* CodeGen::proc, arm Some(Some(f))
proc_ready(ident) ==
    /\ blocks' = Emit(blocks, cur, InsCall(procs[ident], Back(ptr)))
    /\ UNCHANGED <<funcs, cur, ptr, loops, procs>>

\* Op::Proc(ident), identifier not in the registry
GenProcUnseen ==
    /\ AtOp({"Proc"})
    /\ ast[ip].c \notin DOMAIN procs
    /\ proc_unseen(ast[ip].c)
    /\ ip' = ip + 1
    /\ UNCHANGED <<lexVars, pc, ast, llvmAsserts, runVars>>

\* Op::Proc(ident), identifier registered with None
GenProcDefining ==
    /\ AtOp({"Proc"})
    /\ ast[ip].c \in DOMAIN procs
    /\ procs[ast[ip].c] = 0
    /\ proc_defining(ast[ip].c)
    /\ ip' = ip + 1
    /\ UNCHANGED <<lexVars, pc, ast, llvmAsserts, opened, runVars>>

\* Op::Proc(ident), identifier registered with Some(f)
GenProcReady ==
    /\ AtOp({"Proc"})
    /\ ast[ip].c \in DOMAIN procs
    /\ procs[ast[ip].c] # 0
    /\ proc_ready(ast[ip].c)
    /\ ip' = ip + 1
    /\ UNCHANGED <<lexVars, pc, ast, llvmAsserts, opened, runVars>>

\* the end of CodeGen::run: build_return(Some(i8 0)) at the builder's position
GenReturn ==
    /\ pc = "gen"
    /\ ip > Len(ast)
    /\ blocks' = Emit(blocks, cur, InsRet(TRUE))
    /\ pc' = "generated"
    /\ UNCHANGED <<lexVars, ast, ip, funcs, cur, ptr, loops, procs, llvmAsserts, opened, runVars>>

\* main: cdg.generate_machine_code("main.o"), the module goes to the backend
generate_machine_code ==
    /\ pc = "generated"
    /\ pc' = "emitted"
    /\ UNCHANGED <<lexVars, genVars, llvmAsserts, opened, runVars>>

GenNext ==
    \/ CodeGen_new
    \/ GenPointer
    \/ GenValue
    \/ GenOutput
    \/ GenInput
    \/ GenLLoop
    \/ GenRLoop
    \/ GenRLoopPanic
    \/ GenProcUnseen
    \/ GenProcDefining
    \/ GenProcReady
    \/ GenReturn
    \/ generate_machine_code

(***************************************************************************)
(* The run of the generated program                                       *)
(***************************************************************************)
\* the bytes getchar may return
InBytes == {0, 1, 255}
CellMod == 2 ^ CellBits

UsesCell(ins) == ins.op \notin {"br", "ret"}

\* The module is one whose run LLVM defines: every block ends in its only
\* terminator, every instruction uses the scope cell of its own function,
\* branches stay inside the function and a return fits the function's type.
WellFormedBlock(b) ==
    LET ins == blocks[b].ins
        f == blocks[b].fn
    IN  /\ ins # <<>>
        /\ \A i \in 1..Len(ins) : (ins[i].op \in Terminators) <=> (i = Len(ins))
        /\ \A i \in 1..Len(ins) :
            /\ UsesCell(ins[i]) => ins[i].cell = f
            /\ ins[i].op = "br" => blocks[ins[i].t].fn = f
            /\ ins[i].op = "condbr" => blocks[ins[i].t].fn = f /\ blocks[ins[i].e].fn = f
            /\ ins[i].op = "ret" => (ins[i].n = 0) = funcs[f].void

WellFormed == {b \in 1..Len(blocks) : ~WellFormedBlock(b)} = {}

\* f.get_first_basic_block()
EntryOf(f) ==
    CHOOSE b \in 1..Len(blocks) :
        /\ blocks[b].fn = f
        /\ \A c \in 1..Len(blocks) : blocks[c].fn = f => b <= c

Frame(f, arg) == [fn |-> f, blk |-> EntryOf(f), idx |-> 1, p |-> arg, arg |-> arg]
Top == frames[Len(frames)]
CurIns == blocks[Top.blk].ins[Top.idx]
SetTop(fr) == [frames EXCEPT ![Len(frames)] = fr]
Advance(fr) == [fr EXCEPT !.idx = @ + 1]
InTape(a) == a >= 0 /\ a < TapeSize
Cell(a) == IF a \in DOMAIN tape THEN tape[a] ELSE 0
Store(a, v) == [x \in DOMAIN tape \cup {a} |-> IF x = a THEN v ELSE tape[x]]
Running(ops) == pc = "running" /\ CurIns.op \in ops

\* the executable starts: main is entered, calloc's zeroed block is at offset 0
ProgramStart ==
    /\ pc = "emitted"
    /\ WellFormed
    /\ pc' = "running"
    /\ frames' = <<Frame(get_function("main"), 0)>>
    /\ UNCHANGED <<lexVars, genVars, llvmAsserts, opened, tape, output, nread>>

\* alloca ptr; store of the calloc block (main) or of the parameter (procedure)
ExecInit ==
    /\ Running({"init"})
    /\ frames' = SetTop(Advance([Top EXCEPT !.p = Top.arg]))
    /\ UNCHANGED <<lexVars, genVars, llvmAsserts, opened, pc, tape, output, nread>>

\* load_ptr; gep by n bytes; store to the scope cell
ExecGep ==
    /\ Running({"gep"})
    /\ frames' = SetTop(Advance([Top EXCEPT !.p = @ + CurIns.n]))
    /\ UNCHANGED <<lexVars, genVars, llvmAsserts, opened, pc, tape, output, nread>>

\* the result of the add or sub, of the left operand's type i8
ArithResult(op, v, n) ==
    IF op = "add" THEN (v + n) % CellMod ELSE (v - n) % CellMod

\* load_ptr; load_val; add or sub; store
ExecArith ==
    /\ Running({"add", "sub"})
    /\ InTape(Top.p)
    /\ tape' = Store(Top.p, ArithResult(CurIns.op, Cell(Top.p), CurIns.n))
    /\ frames' = SetTop(Advance(Top))
    /\ UNCHANGED <<lexVars, genVars, llvmAsserts, opened, pc, output, nread>>

\* load_ptr; load_val; call putchar
ExecOut ==
    /\ Running({"out"})
    /\ InTape(Top.p)
    /\ Len(output) < MaxOut
    /\ output' = Append(output, Cell(Top.p))
    /\ frames' = SetTop(Advance(Top))
    /\ UNCHANGED <<lexVars, genVars, llvmAsserts, opened, pc, tape, nread>>

\* load_ptr; call getchar; store
ExecIn ==
    /\ Running({"in"})
    /\ InTape(Top.p)
    /\ nread < MaxIn
    /\ \E v \in InBytes : tape' = Store(Top.p, v)
    /\ nread' = nread + 1
    /\ frames' = SetTop(Advance(Top))
    /\ UNCHANGED <<lexVars, genVars, llvmAsserts, opened, pc, output>>

\* br
ExecBr ==
    /\ Running({"br"})
    /\ frames' = SetTop([Top EXCEPT !.blk = CurIns.t, !.idx = 1])
    /\ UNCHANGED <<lexVars, genVars, llvmAsserts, opened, pc, tape, output, nread>>

\* load_ptr; load_val; icmp ne 0; br body_block, end_block
ExecCondBr ==
    /\ Running({"condbr"})
    /\ InTape(Top.p)
    /\ frames' = SetTop([Top EXCEPT
                            !.blk = IF Cell(Top.p) # 0 THEN CurIns.t ELSE CurIns.e,
                            !.idx = 1])
    /\ UNCHANGED <<lexVars, genVars, llvmAsserts, opened, pc, tape, output, nread>>

\* load_ptr; call f(ptr)
ExecCall ==
    /\ Running({"call"})
    /\ frames' = Append(frames, Frame(CurIns.t, Top.p))
    /\ UNCHANGED <<lexVars, genVars, llvmAsserts, opened, pc, tape, output, nread>>

\* mutant: the procedure's scope cell is the caller's, its moves stay
ExecRetSharedCell ==
    /\ Running({"ret"})
    /\ Len(frames) > 1
    /\ frames' = [PopBack(frames) EXCEPT ![Len(frames) - 1] = Advance([@ EXCEPT !.p = Top.p])]
    /\ UNCHANGED <<lexVars, genVars, llvmAsserts, opened, pc, tape, output, nread>>

\* ret from a procedure: the caller goes on after its call
ExecRet ==
    /\ Running({"ret"})
    /\ Len(frames) > 1
    /\ frames' = [PopBack(frames) EXCEPT ![Len(frames) - 1] = Advance(@)]
    /\ UNCHANGED <<lexVars, genVars, llvmAsserts, opened, pc, tape, output, nread>>

\* ret i8 0 from main
ExecExit ==
    /\ Running({"ret"})
    /\ Len(frames) = 1
    /\ pc' = "exited"
    /\ frames' = <<>>
    /\ UNCHANGED <<lexVars, genVars, llvmAsserts, opened, tape, output, nread>>

\* a load or store through a pointer outside the calloc block: undefined
ExecOutOfTape ==
    /\ Running({"add", "sub", "out", "in", "condbr"})
    /\ ~InTape(Top.p)
    /\ pc' = "undefined"
    /\ UNCHANGED <<lexVars, genVars, llvmAsserts, opened, runVars>>

RunNext ==
    \/ ProgramStart
    \/ ExecInit
    \/ ExecGep
    \/ ExecArith
    \/ ExecOut
    \/ ExecIn
    \/ ExecBr
    \/ ExecCondBr
    \/ ExecCall
    \/ ExecRet
    \/ ExecExit
    \/ ExecOutOfTape

(***************************************************************************)
(* Inputs                                                                 *)
(***************************************************************************)
Strings(S, n) == UNION {[1..m -> S] : m \in 0..n}
Rep(c, k) == [i \in 1..k |-> c]

\* k1 copies of one run symbol followed by k2 copies of another
RunInputs ==
    {Rep(c1, k1) \o Rep(c2, k2) :
        <<c1, c2>> \in RunChars \X RunChars, <<k1, k2>> \in (1..MaxRun) \X (0..MaxRun)}

LexInputs == Strings(Alphabet, LexLen) \cup RunInputs

\* the state after Lexer::new(source), nothing of CodeGen built yet
InitFrom(inputs) ==
    /\ buffer \in inputs
    /\ lptr = 0
    /\ vec = <<>>
    /\ pc = "lex"
    /\ ast = <<>>
    /\ ip = 0
    /\ funcs = <<>>
    /\ blocks = <<>>
    /\ cur = 0
    /\ ptr = <<>>
    /\ loops = <<>>
    /\ procs = EmptyMap
    /\ llvmAsserts \in BOOLEAN
    /\ opened = EmptyMap
    /\ frames = <<>>
    /\ tape = EmptyMap
    /\ output = <<>>
    /\ nread = 0

InitLex == InitFrom(LexInputs)

SpecLex == InitLex /\ [][LexNext]_vars
\* the lexer runs in the one thread of main and is never held up
SpecLexFair == SpecLex /\ WF_vars(LexNext)

(***************************************************************************)
(* Properties of the Lexer                                                *)
(***************************************************************************)
LexDone == pc = "lexed"
OpKinds == RunKinds \cup {"Output", "Input", "LLoop", "RLoop", "Proc"}
CountChars(buf, n, S) == Cardinality({i \in 1..n : buf[i] \in S})

\* C2: an input of k copies of one of + - > < lexes to the one run Op of
\* length k, and k1 copies of one followed by k2 copies of another lex to
\* exactly two run Ops of lengths k1 and k2, in that order.
C2_RunLengthFolding ==
    LexDone =>
        \A c1 \in RunChars, c2 \in RunChars :
            \A k1 \in 1..Len(buffer), k2 \in 0..Len(buffer) :
                (c1 # c2 /\ buffer = Rep(c1, k1) \o Rep(c2, k2)) =>
                    vec = IF k2 = 0
                          THEN <<RunOp(c1, k1)>>
                          ELSE <<RunOp(c1, k1), RunOp(c2, k2)>>

C2_Witness ==
    /\ LexDone
    /\ buffer = Rep("+", 3) \o Rep("-", 2)
    /\ vec = <<ValueInc(3), ValueDec(2)>>

\* the characters of buf that are neither symbols nor whitespace, in order
StrayChars(buf) == SelectSeq(buf, LAMBDA c : c \notin Symbols \cup Whitespace)
ProcIdents(ops) ==
    LET ps == SelectSeq(ops, LAMBDA o : o.k = "Proc")
    IN  [i \in 1..Len(ps) |-> ps[i].c]

\* C8: a character that is neither a symbol nor whitespace becomes Proc(c)
\* when it is not alphanumeric; an alphanumeric one, wherever it stands, keeps
\* the lexer from ever returning an Op sequence; whitespace is consumed and
\* yields no Op.
C8_Classification ==
    /\ (\E i \in 1..Len(buffer) : buffer[i] \in {"a", "7"}) => ~LexDone
    /\ ProcIdents(vec) = StrayChars(SubSeq(buffer, 1, lptr))
    /\ Len(vec) <= lptr - CountChars(buffer, lptr, Whitespace)
    /\ pc = "lex_panic" => buffer[lptr + 1] \in {"a", "7"}
    /\ LexDone => lptr = Len(buffer)

C8_Witness ==
    /\ pc = "lex_panic"
    /\ buffer = <<"!", "\t", "7">>
    /\ vec = <<Proc("!")>>
    /\ lptr = 2

\* C9: every run Op the lexer has emitted carries a length of at least 1.
C9_NoZeroRun ==
    \A i \in 1..Len(vec) : vec[i].k \in RunKinds => vec[i].n >= 1

C9_Witness ==
    /\ LexDone
    /\ Len(vec) = 3
    /\ \A i \in 1..3 : vec[i].k \in RunKinds /\ vec[i].n = 1

\* C10: the lexer stops on every input, returning or aborting; each step
\* that emits or skips moves the read position forward; the position never
\* passes the end of the input; returning adds no Op.
C10_LexerTerminates ==
    /\ <>(pc \in {"lexed", "lex_panic"})
    /\ [](lptr <= Len(buffer) /\ \A i \in 1..Len(vec) : vec[i].k \in OpKinds)
    /\ [][/\ (pc' = "lex" => lptr' > lptr)
          /\ (pc' # "lex" => lptr' = lptr /\ vec' = vec)
          /\ Len(vec') <= Len(vec) + 1]_vars

C10_Witness ==
    /\ LexDone
    /\ Len(buffer) = 3
    /\ lptr = 3
    /\ Len(vec) = 2
    /\ buffer[3] \in Whitespace

GenAlphabet == Symbols \cup {" ", "a"} \cup IdentChars
StructAlphabet == {"[", "]", ">"} \cup IdentChars
GenInputs == Strings(GenAlphabet, GenLen) \cup Strings(StructAlphabet, StructLen)

InitGen == InitFrom(GenInputs)
SpecGen == InitGen /\ [][LexNext \/ GenNext]_vars

\* the run counts at which a cell wraps, beside the small ones
Counts == (0..MaxCalls) \cup {CellMod \div 2, CellMod - 1, CellMod, CellMod + 1}
\* `!` is defined around one `+`, then called k times, then the cell is written
DefCall(k) == <<"!", "+", "!">> \o Rep("!", k) \o <<".">>
\* cell 0 is set to n; the loop takes 1 from it and adds 2 to cell 1; cell 1 is written
Doubling(n) == Rep("+", n) \o <<"[", "-", ">", "+", "+", "<", "]", ">", ".">>
\* a + b increments in two runs, then the cell is written
TwoRuns(a, b) == Rep("+", a) \o <<" ">> \o Rep("+", b) \o <<".">>
\* a decrements, then the cell is written
Down(a) == Rep("-", a) \o <<".">>
ScopeAlphabet == {">", "<"} \cup IdentChars
\* `!` is defined around a body, the caller sets up its cell and calls `!`
BodyAlphabet == {">", "<", "+", "[", "]"}
DefineAndCall(body, pre) == <<"!">> \o body \o <<"!">> \o pre \o <<"!", ".">>

Programs ==
    Strings(GenAlphabet, ProgLen)
    \cup Strings(ScopeAlphabet, ScopeLen)
    \cup {DefineAndCall(body, pre) :
            <<body, pre>> \in Strings(BodyAlphabet, BodyLen) \X {<<>>, <<"+">>, <<"+", ">">>}}
    \cup {DefCall(k) : k \in Counts}
    \cup {Doubling(n) : n \in Counts}
    \cup {TwoRuns(a, b) : <<a, b>> \in {<<CellMod, 0>>, <<CellMod - 1, 1>>, <<CellMod - 1, 2>>}}
    \cup {Down(a) : a \in Counts}

Init == InitFrom(Programs)
Next == LexNext \/ GenNext \/ RunNext
Spec == Init /\ [][Next]_vars

(***************************************************************************)
(* Properties of the generator                                            *)
(***************************************************************************)
CountOp(ops, kind) == Cardinality({i \in 1..Len(ops) : ops[i].k = kind})
\* the number of '[' less the number of ']' among the first n characters
BracketDepth(buf, n) == CountChars(buf, n, {"["}) - CountChars(buf, n, {"]"})
WellBracketed(buf) ==
    /\ \A n \in 0..Len(buf) : BracketDepth(buf, n) >= 0
    /\ BracketDepth(buf, Len(buf)) = 0
\* the number of LLoop less the number of RLoop among the first n Ops
OpDepth(ops, n) ==
    Cardinality({i \in 1..n : ops[i].k = "LLoop"})
    - Cardinality({i \in 1..n : ops[i].k = "RLoop"})
\* the Op at i is the first RLoop to arrive with no loop open
FirstUnmatchedClose(ops, i) ==
    /\ ops[i].k = "RLoop"
    /\ OpDepth(ops, i - 1) = 0
    /\ \A j \in 0..(i - 1) : OpDepth(ops, j) >= 0
OpsExhausted == ip > Len(ast)
HasFinalReturn == \E b \in 1..Len(blocks) : \E i \in 1..Len(blocks[b].ins) :
    blocks[b].ins[i].op = "ret" /\ blocks[b].ins[i].n = 1

\* C1: once the Ops of a well-bracketed source are exhausted there are as many
\* LLoop as RLoop Ops and the loops stack is empty; an RLoop that arrives with
\* the loops stack empty is where generation panics: run never goes past it,
\* emits no final return and hands no module on.
C1_LoopBalance ==
    /\ (WellBracketed(buffer) /\ OpsExhausted) =>
            CountOp(ast, "LLoop") = CountOp(ast, "RLoop") /\ loops = <<>>
    /\ \A i \in 1..Len(ast) : FirstUnmatchedClose(ast, i) =>
            /\ ip <= i
            /\ pc \in {"gen", "gen_panic", "llvm_abort"}
            /\ ~HasFinalReturn
    /\ pc = "gen_panic" => FirstUnmatchedClose(ast, ip) /\ loops = <<>>

C1_Witness ==
    /\ pc = "gen_panic"
    /\ buffer = <<"[", "[", "]", "]", "]">>
    /\ ip = 5
    /\ Len(blocks) = 7

\* C5 as claimed: a module is handed to generate_machine_code only with the
\* loops stack empty and the pointer-scope stack at its initial depth.
C5_AllOrNothing ==
    pc = "emitted" => loops = <<>> /\ Len(ptr) = 1

(***************************************************************************)
(* Properties of the generated program                                    *)
(***************************************************************************)
AllIns == {blocks[b].ins[i] : <<b, i>> \in
              {x \in (1..Len(blocks)) \X (0..(Len(buffer) + 2)) :
                  x[2] \in 1..Len(blocks[x[1]].ins)}}

C4_ByteWidthArithmetic ==
    /\ \A ins \in AllIns : ins.op \in {"add", "sub"} => ins.w = CellBits
    /\ pc = "llvm_abort" => ast[ip].k \notin {"ValueInc", "ValueDec"}

AtProc(st) ==
    /\ AtOp({"Proc"})
    /\ CASE st = "Unseen" -> ast[ip].c \notin DOMAIN procs
         [] st = "Defining" -> ast[ip].c \in DOMAIN procs /\ procs[ast[ip].c] = 0
         [] st = "Ready" -> ast[ip].c \in DOMAIN procs /\ procs[ast[ip].c] # 0
\* the step of CodeGen::run that handles the Op at ip
HandlesOp == pc = "gen" /\ ip' = ip + 1
\* block b has not received a terminator
IsOpen(b) == \A i \in 1..Len(blocks[b].ins) : blocks[b].ins[i].op \notin Terminators
\* block b ends in its only terminator
EndsInOneTerminator(b) ==
    /\ blocks[b].ins # <<>>
    /\ \A i \in 1..Len(blocks[b].ins) :
          (blocks[b].ins[i].op \in Terminators) <=> (i = Len(blocks[b].ins))

\* C11 as claimed: the step that takes an identifier from Defining to Ready
\* leaves the builder at the block it was at immediately before the step that
\* opened that definition.
C11_DefinitionRestoresInsertion ==
    [][(AtProc("Defining") /\ HandlesOp) => cur' = opened[ast[ip].c]]_vars

\* C12 as claimed: whenever an Op is about to be processed, and when the final
\* return is about to be emitted, the block the builder is at has received no
\* terminator; every block of the finished module of a program whose loops
\* and definitions are all closed ends in exactly one terminator.
C12_InsertionBlockOpen ==
    /\ pc = "gen" => IsOpen(cur)
    /\ (pc \in {"generated", "emitted"} /\ loops = <<>> /\ Len(ptr) = 1) =>
          \A b \in 1..Len(blocks) : EndsInOneTerminator(b)

\* C13 as claimed: the pointer-scope entry popped when an identifier goes from
\* Defining to Ready is the entry pushed when that identifier went from Unseen
\* to Defining, the cell allocated in the entry block of its function.
C13_ClosePopsOwnScope ==
    [][(AtProc("Defining") /\ HandlesOp) =>
          /\ Back(ptr) = get_function(ast[ip].c)
          /\ ptr' = PopBack(ptr)]_vars

\* the state of identifier c in the registry p
RegState(p, c) ==
    IF c \notin DOMAIN p THEN "Unseen"
    ELSE IF p[c] = 0 THEN "Defining" ELSE "Ready"
\* the step handles a Proc Op that carries the identifier c
TokenStep(c) == AtOp({"Proc"}) /\ ast[ip].c = c /\ HandlesOp

\* C14: an identifier is never removed from the registry; its state changes
\* only on a Proc Op that carries it, by one step of Unseen -> Defining ->
\* Ready, and every such Op takes that step until the identifier is Ready;
\* once Ready it keeps the handle, which is the function of that name.
C14_RegistryOneWay ==
    /\ [](\A c \in DOMAIN procs : procs[c] # 0 =>
              procs[c] \in 1..Len(funcs) /\ funcs[procs[c]].name = c)
    /\ [][\A c \in IdentChars \cup DOMAIN procs :
            LET s == RegState(procs, c)
                t == RegState(procs', c)
            IN  /\ c \in DOMAIN procs => c \in DOMAIN procs'
                /\ s # t => <<s, t>> \in {<<"Unseen", "Defining">>, <<"Defining", "Ready">>}
                /\ (TokenStep(c) /\ s # "Ready") => s # t
                /\ ~TokenStep(c) => s = t
                /\ s = "Ready" => procs'[c] = procs[c]]_vars

C14_Witness ==
    /\ pc = "generated"
    /\ buffer = <<"!", "#", "#", "!", "#", "!">>
    /\ procs = ("!" :> 2 @@ "#" :> 3)

(***************************************************************************)
(* Properties of loops                                                    *)
(***************************************************************************)
\* the Proc Ops among the first n that are the first to carry their identifier
FirstProcs(ops, n) ==
    {i \in 1..n : ops[i].k = "Proc" /\ \A j \in 1..(i - 1) : ops[j] # ops[i]}
\* the number of blocks in the module when the Op at i is reached: the entry
\* block of main, three for each LLoop before it and one for each definition
\* opened before it
BlocksBefore(ops, i) ==
    1 + 3 * Cardinality({j \in 1..(i - 1) : ops[j].k = "LLoop"})
      + Cardinality(FirstProcs(ops, i - 1))
\* the condition and exit blocks created by the LLoop at j
CondOf(ops, j) == BlocksBefore(ops, j) + 1
ExitOf(ops, j) == BlocksBefore(ops, j) + 3
\* the LLoop at j is still open after the first n Ops
OpenAt(ops, j, n) ==
    /\ j <= n
    /\ ops[j].k = "LLoop"
    /\ \A m \in j..n : OpDepth(ops, m) >= OpDepth(ops, j)
\* the most recent LLoop before the Op at i that is not yet closed
MostRecentOpen(ops, i) ==
    CHOOSE j \in 1..(i - 1) :
        /\ OpenAt(ops, j, i - 1)
        /\ \A m \in 1..(i - 1) : OpenAt(ops, m, i - 1) => m <= j

\* C15: the loops stack holds, bottom to top, the (condition, exit) blocks of
\* the LLoops not yet closed, oldest first; an RLoop that does not abort
\* branches to the condition block of the most recent of them, leaves the
\* builder at its exit block, and removes that frame and no other.
C15_LoopCloseLIFO ==
    /\ [](pc \in {"gen", "generated"} =>
            /\ Len(loops) = Cardinality({j \in 1..(ip - 1) : OpenAt(ast, j, ip - 1)})
            /\ \A j \in 1..(ip - 1) : OpenAt(ast, j, ip - 1) =>
                  loops[OpDepth(ast, j)] = <<CondOf(ast, j), ExitOf(ast, j)>>)
    /\ [][(AtOp({"RLoop"}) /\ HandlesOp) =>
            LET j == MostRecentOpen(ast, ip)
            IN  /\ blocks' = Emit(blocks, cur, InsBr(CondOf(ast, j)))
                /\ cur' = ExitOf(ast, j)
                /\ loops' = SubSeq(loops, 1, Len(loops) - 1)
                /\ Back(loops) = <<CondOf(ast, j), ExitOf(ast, j)>>]_vars

C15_Witness ==
    /\ pc = "gen"
    /\ buffer = <<"[", "[", "]", "[", "]", "]">>
    /\ ip = 6
    /\ loops = <<<<2, 4>>>>
    /\ cur = 10
    /\ Back(blocks[9].ins) = InsBr(8)

(***************************************************************************)
(* Properties of the finished module                                      *)
(***************************************************************************)
\* the places (block, index) of the returns that carry a value
ValueReturns ==
    {x \in (1..Len(blocks)) \X (1..(Len(ast) + 2)) :
        /\ x[2] <= Len(blocks[x[1]].ins)
        /\ blocks[x[1]].ins[x[2]] = InsRet(TRUE)}

\* C16 as claimed: when run has finished, the module holds exactly one return
\* that carries a value, and it is in a block of the function main.
C16_FinalReturnInMain ==
    pc \in {"generated", "emitted"} =>
        /\ Cardinality(ValueReturns) = 1
        /\ \A x \in ValueReturns : blocks[x[1]].fn = get_function("main")

\* C17: the step that handles a Proc Op whose identifier is Ready leaves the
\* pointer-scope stack, the loops stack, the registry, the functions and the
\* builder's block as they were; the block the builder is at grows by one
\* call of the function of that name on the cell at the top of the
\* pointer-scope stack, and no other block changes.
C17_CallLeavesStructure ==
    [][(AtProc("Ready") /\ HandlesOp) =>
          /\ ptr' = ptr /\ loops' = loops /\ procs' = procs /\ cur' = cur
          /\ funcs' = funcs
          /\ Len(blocks') = Len(blocks)
          /\ \A b \in 1..Len(blocks) : b # cur => blocks'[b] = blocks[b]
          /\ blocks'[cur].fn = blocks[cur].fn
          /\ Len(blocks'[cur].ins) = Len(blocks[cur].ins) + 1
          /\ SubSeq(blocks'[cur].ins, 1, Len(blocks[cur].ins)) = blocks[cur].ins
          /\ LET call == Back(blocks'[cur].ins)
             IN  /\ call.op = "call"
                 /\ funcs[call.t].name = ast[ip].c
                 /\ call.cell = ptr[Len(ptr)]]_vars

C17_Witness ==
    /\ pc = "gen"
    /\ buffer = <<"!", "!", "[", "!">>
    /\ ip = 5
    /\ cur = 4
    /\ loops = <<<<3, 5>>>>
    /\ blocks[4].ins = <<InsCall(2, 1)>>

\* the identifiers whose definition is open
Defining == {c \in DOMAIN procs : procs[c] = 0}
\* CodeGen exists: CodeGen::new has returned
Constructed == pc \in {"gen", "gen_panic", "llvm_abort", "generated", "emitted"}

\* C18: from CodeGen::new on, the pointer-scope stack holds one entry more
\* than there are identifiers in the state Defining, and its bottom entry is
\* the tape-pointer cell allocated in main's entry block; so the stack is
\* never empty when a handler takes its back().
C18_ScopeDepth ==
    Constructed =>
        /\ Len(ptr) = 1 + Cardinality(Defining)
        /\ ptr # <<>>
        /\ ptr[1] = get_function("main")
        /\ blocks[EntryOf(get_function("main"))].ins[1] = InsInit(ptr[1])

C18_Witness ==
    /\ pc = "generated"
    /\ buffer = <<"!", "#", "!", ">", "!">>
    /\ Defining = {"#"}
    /\ ptr = <<1, 2>>

\* C19 as claimed: the step that handles an RLoop emits its branch into a
\* block of the function that owns the condition and exit blocks of the frame
\* it pops.
C19_LoopBranchInOneFunction ==
    [][(AtOp({"RLoop"}) /\ loops # <<>> /\ HandlesOp) =>
          /\ blocks[cur].fn = blocks[Back(loops)[1]].fn
          /\ blocks[cur].fn = blocks[Back(loops)[2]].fn]_vars

(***************************************************************************)
(* The Op sequence read back as characters                                *)
(***************************************************************************)
\* the character an Op stands for and the number of times it stood in the text
OpChar(op) ==
    CASE op.k = "PointerInc" -> ">"
      [] op.k = "PointerDec" -> "<"
      [] op.k = "ValueInc" -> "+"
      [] op.k = "ValueDec" -> "-"
      [] op.k = "Output" -> "."
      [] op.k = "Input" -> ","
      [] op.k = "LLoop" -> "["
      [] op.k = "RLoop" -> "]"
      [] op.k = "Proc" -> op.c
OpLen(op) == IF op.k \in RunKinds THEN op.n ELSE 1
RECURSIVE Expand(_)
Expand(ops) ==
    IF ops = <<>> THEN <<>>
    ELSE Rep(OpChar(Head(ops)), OpLen(Head(ops))) \o Expand(Tail(ops))
\* buf without the four whitespace characters
Strip(buf) == SelectSeq(buf, LAMBDA ch : ch \notin {"\n", "\r", " ", "\t"})
NoAlphaNum(buf) == \A i \in 1..Len(buf) : buf[i] \notin AlphaNumChars

\* C20: at every point of the lexing of an input without alphanumeric
\* characters the Ops so far, read back as characters, are the text consumed so
\* far without its whitespace; when the lexer returns they are the whole input
\* without its whitespace; the lexer does not abort on such an input.
C20_RoundTrip ==
    NoAlphaNum(buffer) =>
        /\ Expand(vec) = Strip(SubSeq(buffer, 1, lptr))
        /\ LexDone => Expand(vec) = Strip(buffer)
        /\ pc # "lex_panic"

C20_Witness ==
    /\ LexDone
    /\ buffer = <<">", " ", ">">>
    /\ vec = <<PointerInc(1), PointerInc(1)>>
    /\ Expand(vec) = <<">", ">">>
====
